---- MODULE Spec2Model ----
(***************************************************************************)
(* Vector<T> of src/code/vector.h as a state machine over an explicit      *)
(* heap.  Two objects are modelled: "a", constructed first by any of the   *)
(* non-copy constructors, and "b", copy-constructed from "a" in an inner   *)
(* scope.  Every member function is one operator on a machine state        *)
(* [vec, heap, st, silent, oob, ret, flag, copies]; loops are recursive     *)
(* operators performing the same element assignments in the same order as  *)
(* the code.                                                               *)
(* Spec is a program using the two Vectors, SpecStack a program using a    *)
(* Stack<T> of src/code/stack.h (its member v is "a"), and SpecDemo the    *)
(* calls of src/main.cpp on the Vector of the draft src/vector.h.          *)
(***************************************************************************)
EXTENDS Integers, Sequences, FiniteSets, TLC

VARIABLES vec, heap, fault, call, run, lifo, demo

vars == <<vec, heap, fault, call, run, lifo, demo>>

(* ---------------------------------------------------------------- bounds *)
\* largest capacity explored while only "a" is alive
MaxCap == 4
\* most push and pop calls made on a Stack
MaxStackCalls == 6
\* longest run of push_back calls on one Vector
MaxPushes == 12
\* most slots allocated at a time while "a" and "b" are both alive
MaxPairSlots == 2

Names == {"a", "b"}
Values == {1, 2}
\* content of a slot of new T[n] that was never assigned
Uninit == 0
Null == 0
BufIds == 1..(Cardinality(Names) + 1)

NoVector == [alive |-> FALSE, size |-> 0, capacity |-> 0, contents |-> Null]
FreeBuf == [live |-> FALSE, slots |-> <<>>]

\* all sequences over Values of length at most n
SeqsUpTo(n) == UNION {[1..k -> Values] : k \in 0..n}

(* ------------------------------------------------------- machine state   *)
\* st: "ok", "out_of_range" (an exception is propagating) or "crash"
\* (undefined behaviour ended the program).  silent: what an access through
\* nullptr or outside the allocated slots does in this run (TRUE: a store
\* is lost, a load yields an indeterminate value, execution goes on and
\* oob records it; FALSE: the program dies at the access).  ret: the
\* element behind the reference returned by at(), front() or back().
\* flag: the bool returned by empty().  copies: the elements copied so far
\* from one buffer to another.
\*
\* Every operator binds the machine state it is given to one value S (the
\* one-element set {S0}), so that a chain of statements f(g(h(S))) is
\* evaluated once, in program order.
Val(set) == CHOOSE r \in set : TRUE

Ok(S) == S.st = "ok"

Throw(S0) == Val({IF Ok(S) THEN [S EXCEPT !.st = "out_of_range"] ELSE S : S \in {S0}})

Crash(S0) == Val({IF Ok(S) THEN [S EXCEPT !.st = "crash"] ELSE S : S \in {S0}})

Live(S, p) == p # Null /\ S.heap[p].live

Valid(S, p, i) == Live(S, p) /\ i >= 0 /\ i < Len(S.heap[p].slots)

\* the allocator hands out the lowest free buffer (Null: none is left)
NewId(S) ==
  IF \A i \in BufIds : S.heap[i].live THEN Null
  ELSE CHOOSE i \in BufIds : ~S.heap[i].live /\ \A j \in BufIds : j < i => S.heap[j].live

\* new T[n]: n uninitialised slots (n = 0 still yields a distinct buffer);
\* running out of memory ends the program
New(S0, n) ==
  Val({IF ~Ok(S) THEN S
       ELSE IF NewId(S) = Null THEN Crash(S)
       ELSE [S EXCEPT !.heap[NewId(S)] = [live |-> TRUE, slots |-> [k \in 1..n |-> Uninit]]]
       : S \in {S0}})

\* delete[] p: nothing for nullptr; releasing a buffer twice is undefined
Delete(S0, p) ==
  Val({IF ~Ok(S) \/ p = Null THEN S
       ELSE IF S.heap[p].live THEN [S EXCEPT !.heap[p] = FreeBuf]
       ELSE Crash(S)
       : S \in {S0}})

\* an access through nullptr, a released buffer or outside the slots of p
BadAccess(S0, p) ==
  Val({IF S.silent THEN [S EXCEPT !.oob = TRUE] ELSE Crash(S) : S \in {S0}})

\* p[i] = x
Store(S0, p, i, x) ==
  Val({IF ~Ok(S) THEN S
       ELSE IF Valid(S, p, i) THEN [S EXCEPT !.heap[p].slots[i + 1] = x]
       ELSE BadAccess(S, p)
       : S \in {S0}})

\* the value read by p[i]
Load(S, p, i) == IF Valid(S, p, i) THEN S.heap[p].slots[i + 1] ELSE Uninit

\* dst[di] = src[si]
Copy(S0, dst, di, src, si) ==
  Val({IF ~Ok(S) THEN S
       ELSE IF Valid(S, src, si) THEN Store(S, dst, di, Load(S, src, si))
       ELSE Store(BadAccess(S, src), dst, di, Uninit)
       : S \in {S0}})

\* _size = n
SetSize(S0, x, n) == Val({IF Ok(S) THEN [S EXCEPT !.vec[x].size = n] ELSE S : S \in {S0}})

\* _size += d
AddSize(S0, x, d) == Val({SetSize(S, x, S.vec[x].size + d) : S \in {S0}})

\* _capacity = n
SetCapacity(S0, x, n) == Val({IF Ok(S) THEN [S EXCEPT !.vec[x].capacity = n] ELSE S : S \in {S0}})

\* contents = p
SetContents(S0, x, p) == Val({IF Ok(S) THEN [S EXCEPT !.vec[x].contents = p] ELSE S : S \in {S0}})

\* contents[i] = value
StoreAt(S0, x, i, value) == Val({Store(S, S.vec[x].contents, i, value) : S \in {S0}})

(* ------------------------------------------------------------- loops     *)
\* one more element has gone from the old buffer to the new one
Counted(S0) == Val({[S EXCEPT !.copies = @ + 1] : S \in {S0}})

\* for (; i < to; i++) dst[i] = src[i];
RECURSIVE CopyLoop(_, _, _, _, _)
CopyLoop(S0, dst, src, i, to) ==
  Val({IF i >= to \/ ~Ok(S) THEN S
       ELSE CopyLoop(Counted(Copy(S, dst, i, src, i)), dst, src, i + 1, to)
       : S \in {S0}})

\* for (; i < to; i++) contents[i] = value;
RECURSIVE FillLoop(_, _, _, _, _)
FillLoop(S0, x, i, to, value) ==
  Val({IF i >= to \/ ~Ok(S) THEN S
       ELSE FillLoop(StoreAt(S, x, i, value), x, i + 1, to, value)
       : S \in {S0}})

\* for (it = first; it != last; it++, i++) contents[i] = *it;
\* (seq[k] is the element it points to)
RECURSIVE SeqLoop(_, _, _, _, _)
SeqLoop(S0, x, i, seq, k) ==
  Val({IF k > Len(seq) \/ ~Ok(S) THEN S
       ELSE SeqLoop(StoreAt(S, x, i, seq[k]), x, i + 1, seq, k + 1)
       : S \in {S0}})

\* for (i = _size; i > position; i--) contents[i + count - 1] = contents[i - 1];
RECURSIVE ShiftRight(_, _, _, _, _)
ShiftRight(S0, x, i, position, count) ==
  Val({IF ~(i > position) \/ ~Ok(S) THEN S
       ELSE ShiftRight(Copy(S, S.vec[x].contents, i + count - 1, S.vec[x].contents, i - 1),
                       x, i - 1, position, count)
       : S \in {S0}})

\* for (; i < to; i++, j++) contents[j] = contents[i];
RECURSIVE ShiftLeft(_, _, _, _, _)
ShiftLeft(S0, x, i, to, j) ==
  Val({IF i >= to \/ ~Ok(S) THEN S
       ELSE ShiftLeft(Copy(S, S.vec[x].contents, j, S.vec[x].contents, i), x, i + 1, to, j + 1)
       : S \in {S0}})

(* ------------------------------------------------ constructors (46-141)  *)
\* the member initialisers / first assignments of a constructor, with
\* contents = nullptr
Fields(S0, x, size, capacity) ==
  Val({[S EXCEPT !.vec[x] = [alive |-> TRUE, size |-> size, capacity |-> capacity, contents |-> Null]]
       : S \in {S0}})

\* contents = new T[n];
Allocate(S0, x, n) == Val({SetContents(New(S, n), x, NewId(S)) : S \in {S0}})

\* variant of the constructor that allocates new T[size] also for size 0
Ctor_AlwaysAllocates(S0, x, size, value) ==
  Val({FillLoop(Allocate(Fields(S, x, size, size), x, size), x, 0, size, value) : S \in {S0}})

\* Vector(size_t size = 0, const T& value = T())
Ctor(S0, x, size, value) ==
  Val({FillLoop(IF size > 0 THEN Allocate(Fields(S, x, size, size), x, size) ELSE Fields(S, x, size, size),
                x, 0, size, value)
       : S \in {S0}})

\* variant of the copy constructor that copies the pointer instead of the
\* elements
CopyCtor_Shallow(S0, x, other) ==
  Val({SetContents(Fields(S, x, S.vec[other].size, S.vec[other].capacity), x, S.vec[other].contents)
       : S \in {S0}})

\* Vector(const Vector& other)
CopyCtor(S0, x, other) ==
  Val({LET o == S.vec[other]
       IN CopyLoop(IF o.size > 0 THEN Allocate(Fields(S, x, o.size, o.capacity), x, o.capacity)
                   ELSE Fields(S, x, o.size, o.capacity),
                   IF o.size > 0 THEN NewId(S) ELSE Null, o.contents, 0, o.size)
       : S \in {S0}})

\* Vector(initializer_list<T> list)
ListCtor(S0, x, list) ==
  Val({SeqLoop(IF Len(list) > 0 THEN Allocate(Fields(S, x, Len(list), Len(list)), x, Len(list))
               ELSE Fields(S, x, Len(list), Len(list)),
               x, 0, list, 1)
       : S \in {S0}})

\* operator=, after the self-assignment test and delete[] contents
CopyFrom(S0, x, other) ==
  Val({LET o == S.vec[other]
       IN CopyLoop(Allocate(SetCapacity(SetSize(S, x, o.size), x, o.capacity), x, o.capacity),
                   NewId(S), o.contents, 0, o.size)
       : S \in {S0}})

\* variant of operator= without the self-assignment test
CopyAssign_NoSelfTest(S0, x, other) ==
  Val({CopyFrom(Delete(S, S.vec[x].contents), x, other) : S \in {S0}})

\* Vector& operator=(const Vector& other)
CopyAssign(S0, x, other) ==
  Val({IF x = other THEN S ELSE CopyFrom(Delete(S, S.vec[x].contents), x, other) : S \in {S0}})

\* contents = nullptr; and the end of the object's lifetime
EndLife(S0, x) == Val({IF Ok(S) THEN [S EXCEPT !.vec[x] = NoVector] ELSE S : S \in {S0}})

\* ~Vector()
Dtor(S0, x) == Val({EndLife(Delete(S, S.vec[x].contents), x) : S \in {S0}})

(* ------------------------------------------------------ element access   *)
\* return contents[index];  (ret: the element the caller reads through the
\* reference)
Ref(S0, x, index) ==
  Val({IF ~Ok(S) THEN S
       ELSE IF Valid(S, S.vec[x].contents, index)
       THEN [S EXCEPT !.ret = Load(S, S.vec[x].contents, index)]
       ELSE BadAccess(S, S.vec[x].contents)
       : S \in {S0}})

\* T& at(size_t index)
At(S0, x, index) ==
  Val({IF index >= S.vec[x].size THEN Throw(S) ELSE Ref(S, x, index) : S \in {S0}})

\* T& front()
Front(S0, x) == Val({IF S.vec[x].size > 0 THEN Ref(S, x, 0) ELSE Throw(S) : S \in {S0}})

\* variant of back() that returns contents[_size]
Back_PastTheEnd(S0, x) ==
  Val({IF S.vec[x].size > 0 THEN Ref(S, x, S.vec[x].size) ELSE Throw(S) : S \in {S0}})

\* T& back()
Back(S0, x) ==
  Val({IF S.vec[x].size > 0 THEN Ref(S, x, S.vec[x].size - 1) ELSE Throw(S) : S \in {S0}})

(* ------------------------------------------------------ capacity         *)
\* variant of reserve without the test of new_capacity: it reallocates to
\* whatever it is asked for
Reserve_Always(S0, x, new_capacity) ==
  Val({IF ~Ok(S) THEN S
       ELSE LET new_contents == NewId(S)
                v == S.vec[x]
            IN SetCapacity(
                 SetContents(
                   Delete(CopyLoop(New(S, new_capacity), new_contents, v.contents, 0, v.size), v.contents),
                   x, new_contents),
                 x, new_capacity)
       : S \in {S0}})

\* void reserve(size_t new_capacity)
Reserve(S0, x, new_capacity) ==
  Val({IF ~Ok(S) \/ ~(new_capacity >= S.vec[x].capacity) THEN S
       ELSE LET new_contents == NewId(S)
                v == S.vec[x]
            IN SetCapacity(
                 SetContents(
                   Delete(CopyLoop(New(S, new_capacity), new_contents, v.contents, 0, v.size), v.contents),
                   x, new_contents),
                 x, new_capacity)
       : S \in {S0}})

\* void resize(size_t new_size, const T& value = T())
Resize(S0, x, new_size, value) ==
  Val({SetSize(IF new_size > S.vec[x].size
               THEN FillLoop(Reserve(S, x, new_size), x, S.vec[x].size, new_size, value)
               ELSE S,
               x, new_size)
       : S \in {S0}})

\* variant of shrink_to_fit that allocates the smaller buffer and does not
\* copy the elements into it
ShrinkToFit_NoCopy(S0, x) ==
  Val({IF ~Ok(S) \/ ~(S.vec[x].capacity > S.vec[x].size) THEN S
       ELSE LET new_contents == NewId(S)
                v == S.vec[x]
            IN SetCapacity(SetContents(Delete(New(S, v.size), v.contents), x, new_contents), x, v.size)
       : S \in {S0}})

\* void shrink_to_fit()
ShrinkToFit(S0, x) ==
  Val({IF ~Ok(S) \/ ~(S.vec[x].capacity > S.vec[x].size) THEN S
       ELSE LET new_contents == NewId(S)
                v == S.vec[x]
            IN SetCapacity(
                 SetContents(
                   Delete(CopyLoop(New(S, v.size), new_contents, v.contents, 0, v.size), v.contents),
                   x, new_contents),
                 x, v.size)
       : S \in {S0}})

(* ------------------------------------------------------ modifiers        *)
\* void assign(size_t count, const T& value)
Assign(S0, x, count, value) ==
  Val({SetSize(FillLoop(Reserve(S, x, count), x, 0, count, value), x, count) : S \in {S0}})

\* template <typename It> void assign(It first, It last)
AssignRange(S0, x, seq) ==
  Val({SetSize(SeqLoop(Reserve(S, x, Len(seq)), x, 0, seq, 1), x, Len(seq)) : S \in {S0}})

\* variant of the growth step of push_back that makes room for one more
\* element instead of doubling
Grow_ByOne(S0, x) ==
  Val({IF S.vec[x].size = S.vec[x].capacity THEN Reserve(S, x, S.vec[x].capacity + 1) ELSE S
       : S \in {S0}})

\* if (_size == _capacity) { if (_capacity == 0) reserve(2); else reserve(_capacity * 2); }
Grow(S0, x) ==
  Val({IF S.vec[x].size = S.vec[x].capacity
       THEN (IF S.vec[x].capacity = 0 THEN Reserve(S, x, 2) ELSE Reserve(S, x, S.vec[x].capacity * 2))
       ELSE S
       : S \in {S0}})

\* contents[_size] = value; _size++;
StoreBack(S0, x, value) ==
  Val({AddSize(StoreAt(S, x, S.vec[x].size, value), x, 1) : S \in {S0}})

\* void push_back(const T& value)
PushBack(S0, x, value) == Val({StoreBack(Grow(S, x), x, value) : S \in {S0}})

\* void pop_back()
PopBack(S0, x) == Val({IF S.vec[x].size > 0 THEN SetSize(S, x, S.vec[x].size - 1) ELSE S : S \in {S0}})

\* variant of insert(position, value) that makes room before it tests the
\* position
Insert_GrowsFirst(S0, x, position, value) ==
  Val({LET v == S.vec[x]
       IN IF position > v.size THEN Throw(IF v.size = v.capacity THEN Reserve(S, x, v.capacity * 2) ELSE S)
          ELSE IF position = v.size THEN PushBack(S, x, value)
          ELSE AddSize(
                 StoreAt(
                   ShiftRight(IF v.size = v.capacity THEN Reserve(S, x, v.capacity * 2) ELSE S,
                              x, v.size, position, 1),
                   x, position, value),
                 x, 1)
       : S \in {S0}})

\* void insert(size_t position, const T& value)
Insert(S0, x, position, value) ==
  Val({LET v == S.vec[x]
       IN IF position > v.size THEN Throw(S)
          ELSE IF position = v.size THEN PushBack(S, x, value)
          ELSE AddSize(
                 StoreAt(
                   ShiftRight(IF v.size = v.capacity THEN Reserve(S, x, v.capacity * 2) ELSE S,
                              x, v.size, position, 1),
                   x, position, value),
                 x, 1)
       : S \in {S0}})

\* void insert(size_t position, size_t count, const T& value)
InsertN(S0, x, position, count, value) ==
  Val({LET v == S.vec[x]
       IN IF position > v.size THEN Throw(S)
          ELSE AddSize(
                 FillLoop(
                   ShiftRight(IF v.capacity < count + v.size THEN Reserve(S, x, count + v.size) ELSE S,
                              x, v.size, position, count),
                   x, position, position + count, value),
                 x, count)
       : S \in {S0}})

\* template <typename It> void insert(size_t position, It first, It last)
InsertRange(S0, x, position, seq) ==
  Val({LET v == S.vec[x]
           d == Len(seq)
       IN IF position > v.size THEN Throw(S)
          ELSE AddSize(
                 SeqLoop(
                   ShiftRight(IF v.capacity < d + v.size THEN Reserve(S, x, d + v.size) ELSE S,
                              x, v.size, position, d),
                   x, position, seq, 1),
                 x, d)
       : S \in {S0}})

\* variant of erase(position) without the shift loop: it drops the last
\* element, whatever the position
Erase_DropsLast(S0, x, position) ==
  Val({IF position >= S.vec[x].size THEN Throw(S) ELSE AddSize(S, x, -1) : S \in {S0}})

\* void erase(size_t position)
Erase(S0, x, position) ==
  Val({LET v == S.vec[x]
       IN IF position >= v.size THEN Throw(S)
          ELSE AddSize(ShiftLeft(S, x, position + 1, v.size, position), x, -1)
       : S \in {S0}})

\* variant of erase(first, last) that moves the tail to first + 1
EraseRange_ShiftedTarget(S0, x, first, last) ==
  Val({LET v == S.vec[x]
       IN IF (first >= v.size) \/ (last > v.size) \/ (last < first) THEN Throw(S)
          ELSE AddSize(ShiftLeft(S, x, last, v.size, first + 1), x, -(last - first))
       : S \in {S0}})

\* variant of erase(first, last) that rejects last <= first
EraseRange_RejectsEmpty(S0, x, first, last) ==
  Val({LET v == S.vec[x]
       IN IF (first >= v.size) \/ (last > v.size) \/ (last <= first) THEN Throw(S)
          ELSE AddSize(ShiftLeft(S, x, last, v.size, first), x, -(last - first))
       : S \in {S0}})

\* void erase(size_t first, size_t last)
EraseRange(S0, x, first, last) ==
  Val({LET v == S.vec[x]
       IN IF (first >= v.size) \/ (last > v.size) \/ (last < first) THEN Throw(S)
          ELSE AddSize(ShiftLeft(S, x, last, v.size, first), x, -(last - first))
       : S \in {S0}})

\* variant of swap that exchanges contents and _size but not _capacity
Swap_KeepsCapacity(S0, x, other) ==
  Val({[S EXCEPT !.vec[x].contents = S.vec[other].contents, !.vec[x].size = S.vec[other].size,
                 !.vec[other].contents = S.vec[x].contents, !.vec[other].size = S.vec[x].size]
       : S \in {S0}})

\* variant of swap that takes other's buffer, size and capacity and leaves
\* other as it was
Swap_TakesOnly(S0, x, other) ==
  Val({[S EXCEPT !.vec[x] = S.vec[other]] : S \in {S0}})

\* void swap(Vector& other) noexcept
Swap(S0, x, other) ==
  Val({[S EXCEPT !.vec[x] = S.vec[other], !.vec[other] = S.vec[x]] : S \in {S0}})

\* template <typename... Args> void emplace_back(Args&&... args)
EmplaceBack(S0, x, value) == Val({StoreBack(Grow(S, x), x, value) : S \in {S0}})

\* reserve(_capacity > 0 ? capacity * 2 : 1);  (capacity read as _capacity)
EmplaceReserve(S0, x) ==
  Val({Reserve(S, x, IF S.vec[x].capacity > 0 THEN S.vec[x].capacity * 2 ELSE 1) : S \in {S0}})

\* the shift loop, the construction at pos and _size++ of emplace
EmplaceShift(S0, x, pos, value) ==
  Val({AddSize(StoreAt(ShiftRight(S, x, S.vec[x].size, pos, 1), x, pos, value), x, 1) : S \in {S0}})

\* template <typename... Args> void emplace(size_t pos, Args&&... args)
\* The pos == _size branch has no return: control falls through into the
\* reserve / shift / construct / _size++ that follow it.
Emplace(S0, x, pos, value) ==
  Val({IF pos > S.vec[x].size THEN Throw(S)
       ELSE EmplaceShift(
              EmplaceReserve(IF pos = S.vec[x].size THEN EmplaceBack(S, x, value) ELSE S, x),
              x, pos, value)
       : S \in {S0}})

\* variant of clear() that also releases the buffer
Clear_ReleasesBuffer(S0, x) ==
  Val({SetCapacity(SetContents(SetSize(Delete(S, S.vec[x].contents), x, 0), x, Null), x, 0) : S \in {S0}})

\* void clear()
Clear(S0, x) == SetSize(S0, x, 0)

(* ------------------------------------------------ Stack<T> (stack.h)     *)
\* bool Vector::empty() const { return (size == 0); }
\* `size` names the member function size(), not the field _size.  The
\* expression is ill-formed; a build that accepts it compares the function
\* itself, which is never null, with 0, whatever the Vector holds.
Empty(S, x) == FALSE

\* the caller of empty() receives its value
IsEmpty(S0, x) == Val({IF Ok(S) THEN [S EXCEPT !.flag = Empty(S, x)] ELSE S : S \in {S0}})

\* A Stack is its member v, the Vector x.
\* bool Stack::empty()
StackEmpty(S0, x) == Val({IsEmpty(S, x) : S \in {S0}})


\* void push(const T& value)
Push(S0, x, value) == Val({PushBack(S, x, value) : S \in {S0}})

\* void pop()
Pop(S0, x) == Val({IF Empty(S, x) THEN Throw(S) ELSE PopBack(S, x) : S \in {S0}})

\* T& top()
Top(S0, x) == Val({IF Empty(S, x) THEN Throw(S) ELSE Back(S, x) : S \in {S0}})

(* ------------------------------------------------ the draft, src/vector.h *)
\* The constructor, reserve, resize, shrink_to_fit and clear of src/vector.h
\* have the bodies of their namesakes in src/code/vector.h, modelled above;
\* push_back differs: it has no case for _capacity == 0.
\* if (_size == _capacity) { reserve(_capacity * 2); }
DraftGrow(S0, x) ==
  Val({IF S.vec[x].size = S.vec[x].capacity THEN Reserve(S, x, S.vec[x].capacity * 2) ELSE S
       : S \in {S0}})

\* void push_back(const T& value)  (src/vector.h)
DraftPushBack(S0, x, value) == Val({StoreBack(DraftGrow(S, x), x, value) : S \in {S0}})

(* ------------------------------------------------------ observers       *)
\* what size(), capacity() return and what at(0) .. at(size()-1) yield
Elems(V, H, x) ==
  [i \in 1..V[x].size |->
     IF V[x].contents # Null /\ H[V[x].contents].live /\ i <= Len(H[V[x].contents].slots)
     THEN H[V[x].contents].slots[i] ELSE Uninit]

(* ------------------------------------------------------ the program      *)
\* vec:   the two Vector objects (their three fields, and whether the
\*        object is within its lifetime)
\* heap:  every buffer new T[n] can return
\* fault: "none", "oob" (an access left the allocated slots and the
\*        program went on) or "crashed" (it ended the program); nothing is
\*        defined after either, so no further call is modelled
\* call:  the member function that has just been called, its arguments,
\*        how it ended (out, in ret the element behind the reference it
\*        returned, in flag the bool it returned) and the objects and
\*        heap it was called on; op is
\*        "none" once the caller has moved on
\* run:   per object, the values passed to push_back since the object was
\*        last empty, while push_back is all that has been called on it,
\*        and the elements these calls copied when they reallocated
\* demo:  which of the calls of src/main.cpp have been made, and whether
\*        they were made in the order of main
\* lifo:  what the caller of a Stack has seen: how many push and pop calls
\*        returned normally, and the values pushed whose pop has not
\*        returned yet, oldest first
Cur ==
  [vec |-> vec, heap |-> heap, st |-> "ok", silent |-> FALSE, oob |-> FALSE, ret |-> Uninit, flag |-> FALSE,
   copies |-> 0]

Quiet == [Cur EXCEPT !.silent = TRUE]

\* the outcomes of a call: R, and when R ran into undefined behaviour also
\* Rs, the same call with the faulting accesses passing silently
Outcomes(R, Rs) == IF R.st = "crash" THEN {R, Rs} ELSE {R}

\* how a call ended: "ok", "out_of_range", "crash", or "undefined" when it
\* returned after an access outside the allocated slots
Outcome(S) == IF S.st = "ok" /\ S.oob THEN "undefined" ELSE S.st

NoCall == [op |-> "none", x |-> "a", other |-> "a", pos |-> 0, cnt |-> 0, val |-> 0, seq |-> <<>>]

NoHeap == [p \in BufIds |-> FreeBuf]

NoVectors == [x \in Names |-> NoVector]

Idle == [op |-> "none", x |-> "a", other |-> "a", pos |-> 0, cnt |-> 0, val |-> 0, seq |-> <<>>,
         ret |-> Uninit, flag |-> FALSE, out |-> "ok", vec |-> NoVectors, heap |-> NoHeap]

NoRun == [pure |-> FALSE, vals |-> <<>>, copies |-> 0]

EmptyRun == [pure |-> TRUE, vals |-> <<>>, copies |-> 0]

\* the slots of the live buffers p, p + 1, ...
RECURSIVE Allocated(_, _)
Allocated(H, p) ==
  IF p \notin BufIds THEN 0
  ELSE (IF H[p].live THEN Len(H[p].slots) ELSE 0) + Allocated(H, p + 1)

\* the longest argument worth trying: a longer one leaves the bounds
Limit(V) == IF V["b"].alive THEN MaxPairSlots ELSE MaxCap

WithinBounds(S) ==
  /\ \A x \in Names : S.vec[x].capacity <= MaxCap
  /\ S.vec["b"].alive => Allocated(S.heap, 1) <= MaxPairSlots

\* the objects a call may modify
Touched(c) == IF c.op \in {"swap"} THEN {c.x, c.other} ELSE {c.x}

NextRun(S, c) ==
  [x \in Names |->
     IF x \notin Touched(c) THEN run[x]
     ELSE IF c.op = "push_back" /\ run[x].pure
     THEN [pure |-> TRUE, vals |-> Append(run[x].vals, c.val), copies |-> run[x].copies + S.copies]
     ELSE IF S.vec[x].alive /\ S.vec[x].size = 0 /\ S.st # "crash" THEN EmptyRun
     ELSE NoRun]

NoDemo == [made |-> {}, inOrder |-> TRUE]

NoLifo == [pushed |-> 0, popped |-> 0, vals |-> <<>>]

NextLifo(S, c) ==
  IF Outcome(S) # "ok" THEN lifo
  ELSE IF c.op = "push"
  THEN [lifo EXCEPT !.pushed = @ + 1, !.vals = Append(@, c.val)]
  ELSE IF c.op = "pop"
  THEN [lifo EXCEPT !.popped = @ + 1, !.vals = SubSeq(@, 1, Len(@) - 1)]
  ELSE lifo

\* what a call c ending in machine state S leaves behind
Called(c, S) ==
  /\ vec' = S.vec
  /\ heap' = S.heap
  /\ fault' = IF S.st = "crash" THEN "crashed" ELSE IF S.oob THEN "oob" ELSE fault
  /\ call' = [op |-> c.op, x |-> c.x, other |-> c.other, pos |-> c.pos, cnt |-> c.cnt,
              val |-> c.val, seq |-> c.seq, ret |-> IF Outcome(S) = "ok" THEN S.ret ELSE Uninit,
              flag |-> Outcome(S) = "ok" /\ S.flag,
              out |-> Outcome(S), vec |-> vec, heap |-> heap]

\* one call c, ending in machine state S
Do(c, S) ==
  /\ WithinBounds(S)
  /\ Called(c, S)
  /\ run' = NextRun(S, c)
  /\ lifo' = NextLifo(S, c)
  /\ demo' = demo

Alive(x) == vec[x].alive

\* the program is running and no call is in progress
Ready == fault = "none" /\ call.op = "none"

\* "a" is declared first and outlives "b"
CanConstruct(x) == ~Alive(x) /\ (x = "b" => Alive("a"))

CanDestroy(x) == Alive(x) /\ (x = "a" => ~Alive("b"))

Init ==
  /\ vec = [x \in Names |-> IF x = "a" THEN [alive |-> TRUE, size |-> 0, capacity |-> 0, contents |-> Null] ELSE NoVector]
  /\ heap = NoHeap
  /\ fault = "none"
  /\ call = [Idle EXCEPT !.op = "Vector"]
  /\ run = [x \in Names |-> IF x = "a" THEN EmptyRun ELSE NoRun]
  /\ lifo = NoLifo
  /\ demo = NoDemo

Construct ==
  /\ Ready
  /\ \E size \in 0..MaxCap, value \in Values :
       /\ CanConstruct("a")
       /\ \E S \in Outcomes(Ctor(Cur, "a", size, value), Ctor(Quiet, "a", size, value)) :
            Do([NoCall EXCEPT !.op = "Vector", !.x = "a", !.cnt = size, !.val = value], S)

ConstructList ==
  /\ Ready
  /\ \E list \in SeqsUpTo(MaxCap) :
       /\ CanConstruct("a")
       /\ \E S \in Outcomes(ListCtor(Cur, "a", list), ListCtor(Quiet, "a", list)) :
            Do([NoCall EXCEPT !.op = "Vector_list", !.x = "a", !.seq = list], S)

ConstructCopy ==
  /\ Ready
  /\ CanConstruct("b")
  /\ \E S \in Outcomes(CopyCtor(Cur, "b", "a"), CopyCtor(Quiet, "b", "a")) :
            Do([NoCall EXCEPT !.op = "Vector_copy", !.x = "b", !.other = "a"], S)

Destroy ==
  /\ Ready
  /\ \E x \in Names :
       /\ CanDestroy(x)
       /\ \E S \in Outcomes(Dtor(Cur, x), Dtor(Quiet, x)) :
            Do([NoCall EXCEPT !.op = "~Vector", !.x = x], S)

DoCopyAssign ==
  /\ Ready
  /\ \E x \in Names, other \in Names :
       /\ Alive(x) /\ Alive(other)
       /\ \E S \in Outcomes(CopyAssign(Cur, x, other), CopyAssign(Quiet, x, other)) :
            Do([NoCall EXCEPT !.op = "operator=", !.x = x, !.other = other], S)

DoSwap ==
  /\ Ready
  /\ \E x \in Names, other \in Names :
       /\ Alive(x) /\ Alive(other)
       /\ \E S \in Outcomes(Swap(Cur, x, other), Swap(Quiet, x, other)) :
            Do([NoCall EXCEPT !.op = "swap", !.x = x, !.other = other], S)

DoAt ==
  /\ Ready
  /\ \E x \in Names, index \in 0..(MaxCap + 1) :
       /\ Alive(x)
       /\ index <= vec[x].size + 1
       /\ \E S \in Outcomes(At(Cur, x, index), At(Quiet, x, index)) :
            Do([NoCall EXCEPT !.op = "at", !.x = x, !.pos = index], S)

DoFront ==
  /\ Ready
  /\ \E x \in Names :
       /\ Alive(x)
       /\ \E S \in Outcomes(Front(Cur, x), Front(Quiet, x)) :
            Do([NoCall EXCEPT !.op = "front", !.x = x], S)

DoBack ==
  /\ Ready
  /\ \E x \in Names :
       /\ Alive(x)
       /\ \E S \in Outcomes(Back(Cur, x), Back(Quiet, x)) :
            Do([NoCall EXCEPT !.op = "back", !.x = x], S)

DoEmpty ==
  /\ Ready
  /\ \E x \in Names :
       /\ Alive(x)
       /\ \E S \in Outcomes(IsEmpty(Cur, x), IsEmpty(Quiet, x)) :
            Do([NoCall EXCEPT !.op = "empty", !.x = x], S)

DoReserve ==
  /\ Ready
  /\ \E x \in Names, n \in 0..Limit(vec) :
       /\ Alive(x)
       /\ \E S \in Outcomes(Reserve(Cur, x, n), Reserve(Quiet, x, n)) :
            Do([NoCall EXCEPT !.op = "reserve", !.x = x, !.cnt = n], S)

DoResize ==
  /\ Ready
  /\ \E x \in Names, n \in 0..Limit(vec), value \in Values :
       /\ Alive(x)
       /\ \E S \in Outcomes(Resize(Cur, x, n, value), Resize(Quiet, x, n, value)) :
            Do([NoCall EXCEPT !.op = "resize", !.x = x, !.cnt = n, !.val = value], S)

DoShrinkToFit ==
  /\ Ready
  /\ \E x \in Names :
       /\ Alive(x)
       /\ \E S \in Outcomes(ShrinkToFit(Cur, x), ShrinkToFit(Quiet, x)) :
            Do([NoCall EXCEPT !.op = "shrink_to_fit", !.x = x], S)

DoAssign ==
  /\ Ready
  /\ \E x \in Names, n \in 0..Limit(vec), value \in Values :
       /\ Alive(x)
       /\ \E S \in Outcomes(Assign(Cur, x, n, value), Assign(Quiet, x, n, value)) :
            Do([NoCall EXCEPT !.op = "assign", !.x = x, !.cnt = n, !.val = value], S)

DoAssignRange ==
  /\ Ready
  /\ \E x \in Names, seq \in SeqsUpTo(MaxCap) :
       /\ Alive(x)
       /\ Len(seq) <= Limit(vec)
       /\ \E S \in Outcomes(AssignRange(Cur, x, seq), AssignRange(Quiet, x, seq)) :
            Do([NoCall EXCEPT !.op = "assign_range", !.x = x, !.seq = seq], S)

DoPushBack ==
  /\ Ready
  /\ \E x \in Names, value \in Values :
       /\ Alive(x)
       /\ \E S \in Outcomes(PushBack(Cur, x, value), PushBack(Quiet, x, value)) :
            Do([NoCall EXCEPT !.op = "push_back", !.x = x, !.val = value], S)

DoPopBack ==
  /\ Ready
  /\ \E x \in Names :
       /\ Alive(x)
       /\ \E S \in Outcomes(PopBack(Cur, x), PopBack(Quiet, x)) :
            Do([NoCall EXCEPT !.op = "pop_back", !.x = x], S)

DoInsert ==
  /\ Ready
  /\ \E x \in Names, position \in 0..(MaxCap + 1), value \in Values :
       /\ Alive(x)
       /\ position <= vec[x].size + 1
       /\ \E S \in Outcomes(Insert(Cur, x, position, value), Insert(Quiet, x, position, value)) :
            Do([NoCall EXCEPT !.op = "insert", !.x = x, !.pos = position, !.val = value], S)

DoInsertN ==
  /\ Ready
  /\ \E x \in Names, position \in 0..(MaxCap + 1), count \in 0..MaxCap, value \in Values :
       /\ Alive(x)
       /\ position <= vec[x].size + 1
       /\ count + vec[x].size <= Limit(vec)
       /\ \E S \in Outcomes(InsertN(Cur, x, position, count, value), InsertN(Quiet, x, position, count, value)) :
            Do([NoCall EXCEPT !.op = "insert_n", !.x = x, !.pos = position, !.cnt = count, !.val = value], S)

DoInsertRange ==
  /\ Ready
  /\ \E x \in Names, position \in 0..(MaxCap + 1), seq \in SeqsUpTo(MaxCap) :
       /\ Alive(x)
       /\ position <= vec[x].size + 1
       /\ Len(seq) + vec[x].size <= Limit(vec)
       /\ \E S \in Outcomes(InsertRange(Cur, x, position, seq), InsertRange(Quiet, x, position, seq)) :
            Do([NoCall EXCEPT !.op = "insert_range", !.x = x, !.pos = position, !.seq = seq], S)

DoErase ==
  /\ Ready
  /\ \E x \in Names, position \in 0..MaxCap :
       /\ Alive(x)
       /\ position <= vec[x].size
       /\ \E S \in Outcomes(Erase(Cur, x, position), Erase(Quiet, x, position)) :
            Do([NoCall EXCEPT !.op = "erase", !.x = x, !.pos = position], S)

DoEraseRange ==
  /\ Ready
  /\ \E x \in Names, first \in 0..(MaxCap + 1), last \in 0..(MaxCap + 1) :
       /\ Alive(x)
       /\ first <= vec[x].size + 1 /\ last <= vec[x].size + 1
       /\ \E S \in Outcomes(EraseRange(Cur, x, first, last), EraseRange(Quiet, x, first, last)) :
            Do([NoCall EXCEPT !.op = "erase_range", !.x = x, !.pos = first, !.cnt = last], S)

DoEmplace ==
  /\ Ready
  /\ \E x \in Names, pos \in 0..(MaxCap + 1), value \in Values :
       /\ Alive(x)
       /\ pos <= vec[x].size + 1
       /\ \E S \in Outcomes(Emplace(Cur, x, pos, value), Emplace(Quiet, x, pos, value)) :
            Do([NoCall EXCEPT !.op = "emplace", !.x = x, !.pos = pos, !.val = value], S)

DoEmplaceBack ==
  /\ Ready
  /\ \E x \in Names, value \in Values :
       /\ Alive(x)
       /\ \E S \in Outcomes(EmplaceBack(Cur, x, value), EmplaceBack(Quiet, x, value)) :
            Do([NoCall EXCEPT !.op = "emplace_back", !.x = x, !.val = value], S)

DoClear ==
  /\ Ready
  /\ \E x \in Names :
       /\ Alive(x)
       /\ \E S \in Outcomes(Clear(Cur, x), Clear(Quiet, x)) :
            Do([NoCall EXCEPT !.op = "clear", !.x = x], S)

\* the caller has looked at the outcome of the call and moves on
Return ==
  /\ call.op # "none"
  /\ fault = "none"
  /\ call' = Idle
  /\ UNCHANGED <<vec, heap, fault, run, lifo, demo>>

Next ==
  \/ Return
  \/ Construct \/ ConstructList \/ ConstructCopy \/ Destroy
  \/ DoCopyAssign \/ DoSwap
  \/ DoAt \/ DoFront \/ DoBack \/ DoEmpty
  \/ DoReserve \/ DoResize \/ DoShrinkToFit
  \/ DoAssign \/ DoAssignRange
  \/ DoPushBack \/ DoPopBack
  \/ DoInsert \/ DoInsertN \/ DoInsertRange
  \/ DoErase \/ DoEraseRange
  \/ DoEmplace \/ DoEmplaceBack
  \/ DoClear

Spec == Init /\ [][Next]_vars

(* ------------------------------------------------ a program with a Stack *)
\* Stack<int> s;  its member v is the Vector "a", default-constructed
InitStack ==
  /\ vec = [x \in Names |-> IF x = "a" THEN [alive |-> TRUE, size |-> 0, capacity |-> 0, contents |-> Null] ELSE NoVector]
  /\ heap = NoHeap
  /\ fault = "none"
  /\ call = [Idle EXCEPT !.op = "Stack"]
  /\ run = [x \in Names |-> NoRun]
  /\ lifo = NoLifo
  /\ demo = NoDemo

CanCall == lifo.pushed + lifo.popped < MaxStackCalls

DoPush ==
  /\ Ready
  /\ CanCall
  /\ \E value \in Values :
       \E S \in Outcomes(Push(Cur, "a", value), Push(Quiet, "a", value)) :
         Do([NoCall EXCEPT !.op = "push", !.val = value], S)

DoPop ==
  /\ Ready
  /\ CanCall
  /\ \E S \in Outcomes(Pop(Cur, "a"), Pop(Quiet, "a")) :
       Do([NoCall EXCEPT !.op = "pop"], S)

DoTop ==
  /\ Ready
  /\ \E S \in Outcomes(Top(Cur, "a"), Top(Quiet, "a")) :
       Do([NoCall EXCEPT !.op = "top"], S)

DoStackEmpty ==
  /\ Ready
  /\ \E S \in Outcomes(StackEmpty(Cur, "a"), StackEmpty(Quiet, "a")) :
       Do([NoCall EXCEPT !.op = "Stack::empty"], S)

NextStack == Return \/ DoPush \/ DoPop \/ DoTop \/ DoStackEmpty

SpecStack == InitStack /\ [][NextStack]_vars

(* ------------------------------------------------ a run of push_back     *)
\* Vector<int> v; followed by push_back calls only
InitGrowth ==
  /\ vec = [x \in Names |-> IF x = "a" THEN [alive |-> TRUE, size |-> 0, capacity |-> 0, contents |-> Null] ELSE NoVector]
  /\ heap = NoHeap
  /\ fault = "none"
  /\ call = [Idle EXCEPT !.op = "Vector"]
  /\ run = [x \in Names |-> IF x = "a" THEN EmptyRun ELSE NoRun]
  /\ lifo = NoLifo
  /\ demo = NoDemo

GrowthPushBack ==
  /\ Ready
  /\ Len(run["a"].vals) < MaxPushes
  /\ \E value \in Values :
       \E S \in Outcomes(PushBack(Cur, "a", value), PushBack(Quiet, "a", value)) :
         /\ Called([NoCall EXCEPT !.op = "push_back", !.val = value], S)
         /\ run' = NextRun(S, [NoCall EXCEPT !.op = "push_back", !.val = value])
         /\ UNCHANGED <<lifo, demo>>

NextGrowth == Return \/ GrowthPushBack

SpecGrowth == InitGrowth /\ [][NextGrowth]_vars

(* ------------------------------------------------ src/main.cpp          *)
\* the calls main makes on vec that change it, in its order
Script ==
  << [NoCall EXCEPT !.op = "push_back", !.val = 1],
     [NoCall EXCEPT !.op = "push_back", !.val = 2],
     [NoCall EXCEPT !.op = "push_back", !.val = 3],
     [NoCall EXCEPT !.op = "resize", !.cnt = 5, !.val = 100],
     [NoCall EXCEPT !.op = "shrink_to_fit"],
     [NoCall EXCEPT !.op = "resize", !.cnt = 2, !.val = 0],
     [NoCall EXCEPT !.op = "shrink_to_fit"],
     [NoCall EXCEPT !.op = "clear"],
     [NoCall EXCEPT !.op = "shrink_to_fit"] >>

\* Vector<int> vec;
InitDemo ==
  /\ vec = [x \in Names |-> IF x = "a" THEN [alive |-> TRUE, size |-> 0, capacity |-> 0, contents |-> Null] ELSE NoVector]
  /\ heap = NoHeap
  /\ fault = "none"
  /\ call = [Idle EXCEPT !.op = "Vector"]
  /\ run = [x \in Names |-> NoRun]
  /\ lifo = NoLifo
  /\ demo = NoDemo

\* the program has not ended (it goes on after an access outside the
\* allocated slots that passed silently) and no call is in progress
Going == fault # "crashed" /\ call.op = "none"

\* the calls of main still to make, each once and equal ones in the order
\* of main; the specification makes them in any order
ToMake(op) ==
  {i \in 1..Len(Script) :
     /\ Script[i].op = op
     /\ i \notin demo.made
     /\ \A j \in 1..(i - 1) : Script[j] = Script[i] => j \in demo.made}

\* call number i of main, ending in machine state S
DoDemo(i, S) ==
  /\ Called(Script[i], S)
  /\ demo' = [made |-> demo.made \cup {i}, inOrder |-> demo.inOrder /\ demo.made = 1..(i - 1)]
  /\ UNCHANGED <<run, lifo>>

DemoPushBack ==
  /\ Going
  /\ \E i \in ToMake("push_back") :
       \E S \in Outcomes(DraftPushBack(Cur, "a", Script[i].val), DraftPushBack(Quiet, "a", Script[i].val)) :
         DoDemo(i, S)

DemoResize ==
  /\ Going
  /\ \E i \in ToMake("resize") :
       \E S \in Outcomes(Resize(Cur, "a", Script[i].cnt, Script[i].val),
                          Resize(Quiet, "a", Script[i].cnt, Script[i].val)) :
         DoDemo(i, S)

DemoShrinkToFit ==
  /\ Going
  /\ \E i \in ToMake("shrink_to_fit") :
       \E S \in Outcomes(ShrinkToFit(Cur, "a"), ShrinkToFit(Quiet, "a")) :
         DoDemo(i, S)

DemoClear ==
  /\ Going
  /\ \E i \in ToMake("clear") :
       \E S \in Outcomes(Clear(Cur, "a"), Clear(Quiet, "a")) :
         DoDemo(i, S)

DemoReturn ==
  /\ call.op # "none"
  /\ fault # "crashed"
  /\ call' = Idle
  /\ UNCHANGED <<vec, heap, fault, run, lifo, demo>>

NextDemo == DemoReturn \/ DemoPushBack \/ DemoResize \/ DemoShrinkToFit \/ DemoClear

SpecDemo == InitDemo /\ [][NextDemo]_vars

TypeOK ==
  /\ fault \in {"none", "oob", "crashed"}
  /\ call.out \in {"ok", "out_of_range", "crash", "undefined"}
  /\ \A x \in Names : vec[x].size \in Nat /\ vec[x].capacity \in Nat /\ vec[x].contents \in BufIds \cup {Null}

(* ====================================================== properties      *)
PreVec(x) == call.vec[x]

\* the machine state the call started from
Before ==
  [vec |-> call.vec, heap |-> call.heap, st |-> "ok", silent |-> FALSE, oob |-> FALSE, ret |-> Uninit,
   flag |-> FALSE, copies |-> 0]

PreElems(x) == Elems(call.vec, call.heap, x)

NowElems(x) == Elems(vec, heap, x)

\* the buffer of x is allocated and has exactly capacity() slots
OwnsSlots(V, H, x) ==
  /\ V[x].contents # Null
  /\ H[V[x].contents].live
  /\ Len(H[V[x].contents].slots) = V[x].capacity

(* C1: in every reachable state, after any sequence of constructions,      *)
(* copies and member-function calls, size() <= capacity() for every        *)
(* Vector.                                                                 *)
C1_SizeWithinCapacity == \A x \in Names : vec[x].alive => vec[x].size <= vec[x].capacity

\* a multi-element insert that had to grow the buffer and filled it exactly
C1_Witness ==
  /\ call.op = "insert_n" /\ call.out = "ok"
  /\ vec[call.x].size = vec[call.x].capacity
  /\ vec[call.x].capacity > PreVec(call.x).capacity
  /\ vec[call.x].size > PreVec(call.x).size

(* C2: in every reachable state no access has left an allocated buffer     *)
(* (no store through a null or too-small buffer), and every Vector with    *)
(* capacity() > 0 owns an allocated buffer of exactly capacity() slots.    *)
C2_OwnsCapacitySlots ==
  /\ fault = "none"
  /\ \A x \in Names : (vec[x].alive /\ vec[x].capacity > 0) => OwnsSlots(vec, heap, x)

(* C3: while push_back is all that has been called on a Vector since it    *)
(* was empty, after the k-th call size() = k and at(i) is the i-th value   *)
(* pushed, for every i < k.                                                *)
C3_PushBackSequence ==
  \A x \in Names : (vec[x].alive /\ run[x].pure) =>
     /\ vec[x].size = Len(run[x].vals)
     /\ NowElems(x) = run[x].vals

(* C4: push_back with size() = capacity() sets the capacity to 2 if it was *)
(* 0 and to twice its value otherwise; push_back with size() < capacity()  *)
(* leaves the capacity alone; in both cases the value is stored at index   *)
(* old size() and size() grows by one.                                     *)
C4_PushBackGrowth ==
  call.op = "push_back" =>
    LET pre == PreVec(call.x)
        now == vec[call.x]
    IN /\ call.out = "ok"
       /\ pre.size = pre.capacity => now.capacity = (IF pre.capacity = 0 THEN 2 ELSE 2 * pre.capacity)
       /\ pre.size < pre.capacity => now.capacity = pre.capacity
       /\ now.size = pre.size + 1
       /\ NowElems(call.x) = Append(PreElems(call.x), call.val)

(* C5: a Vector and its copy are independent: a call on one of them (swap  *)
(* with the other aside) leaves the other's size(), capacity() and live    *)
(* elements as they were.                                                  *)
C5_CopiesIndependent ==
  (call.op \notin {"none", "swap"}) =>
    \A y \in Names \ {call.x} :
       PreVec(y).alive =>
         /\ vec[y].alive
         /\ vec[y].size = PreVec(y).size
         /\ vec[y].capacity = PreVec(y).capacity
         /\ NowElems(y) = PreElems(y)

\* the copy "b" was equal to "a", has been overwritten by assign, and "a"
\* still holds its elements
C5_Witness ==
  /\ call.op = "assign" /\ call.x = "b" /\ call.out = "ok"
  /\ PreVec("a").alive /\ PreVec("a").size > 0
  /\ PreElems("b") = PreElems("a")
  /\ NowElems("b") # NowElems("a")
  /\ NowElems("a") = PreElems("a")

(* C6: copy construction from any source S yields size() = S.size(),       *)
(* capacity() = S.capacity(), the same live elements in the same order     *)
(* and, when S.capacity() > 0, a newly allocated buffer of S.capacity()    *)
(* slots that is not S's buffer.                                           *)
C6_CopyConstruction ==
  call.op = "Vector_copy" =>
    /\ call.out = "ok"
    /\ vec[call.x].size = PreVec(call.other).size
    /\ vec[call.x].capacity = PreVec(call.other).capacity
    /\ NowElems(call.x) = PreElems(call.other)
    /\ PreVec(call.other).capacity > 0 =>
         /\ OwnsSlots(vec, heap, call.x)
         /\ vec[call.x].contents # vec[call.other].contents
         /\ ~call.heap[vec[call.x].contents].live

(* C7: emplace(pos, args) with pos = size() has exactly the effect of      *)
(* emplace_back(args): size() grows by one, the new element is the last    *)
(* one and the elements already there keep their indices and values.       *)
C7_EmplaceAtEnd ==
  (call.op = "emplace" /\ call.pos = PreVec(call.x).size) =>
    LET E == EmplaceBack([Before EXCEPT !.silent = (call.out = "undefined")], call.x, call.val)
    IN /\ call.out = Outcome(E)
       /\ vec[call.x].size = E.vec[call.x].size
       /\ vec[call.x].capacity = E.vec[call.x].capacity
       /\ NowElems(call.x) = Elems(E.vec, E.heap, call.x)
       /\ call.out = "ok" =>
            /\ vec[call.x].size = PreVec(call.x).size + 1
            /\ NowElems(call.x) = Append(PreElems(call.x), call.val)

(* C8: insert(position, value) with position <= size() on a Vector holding *)
(* s yields s[0..position) ++ [value] ++ s[position..size) and size() + 1; *)
(* with position = size() it behaves as push_back(value); with             *)
(* position > size() it fails with an out-of-range error.                  *)
C8_InsertOne ==
  call.op = "insert" =>
    LET pre == PreVec(call.x)
        s == PreElems(call.x)
        P == PushBack(Before, call.x, call.val)
    IN IF call.pos > pre.size THEN call.out = "out_of_range"
       ELSE /\ call.out = "ok"
            /\ vec[call.x].size = pre.size + 1
            /\ NowElems(call.x) = SubSeq(s, 1, call.pos) \o <<call.val>> \o SubSeq(s, call.pos + 1, pre.size)
            /\ call.pos = pre.size => (vec = P.vec /\ heap = P.heap)

(* C9: for every Vector, value v and pos <= size(), insert(pos, v)         *)
(* followed by erase(pos) succeeds and restores size() and the sequence    *)
(* of live elements.                                                       *)
C9_InsertThenErase ==
  (call.op = "insert" /\ call.pos <= PreVec(call.x).size) =>
    LET E == Erase(Cur, call.x, call.pos)
    IN /\ call.out = "ok"
       /\ E.st = "ok"
       /\ E.vec[call.x].size = PreVec(call.x).size
       /\ Elems(E.vec, E.heap, call.x) = PreElems(call.x)

(* C10: erase(first, last) fails with an out-of-range error exactly when   *)
(* first >= size() or last > size() or last < first; otherwise it yields   *)
(* s[0..first) ++ s[last..size), size() reduced by last - first, and the   *)
(* capacity unchanged.                                                     *)
C10_EraseRange ==
  call.op = "erase_range" =>
    LET pre == PreVec(call.x)
        s == PreElems(call.x)
        first == call.pos
        last == call.cnt
    IN /\ call.out \in {"ok", "out_of_range"}
       /\ call.out = "out_of_range" <=> (first >= pre.size \/ last > pre.size \/ last < first)
       /\ call.out = "ok" =>
            /\ NowElems(call.x) = SubSeq(s, 1, first) \o SubSeq(s, last + 1, pre.size)
            /\ vec[call.x].size = pre.size - (last - first)
            /\ vec[call.x].capacity = pre.capacity

\* erase(1, 3) on four elements leaves the first and the last one
C10_Witness ==
  /\ call.op = "erase_range" /\ call.out = "ok"
  /\ call.pos = 1 /\ call.cnt = 3
  /\ PreVec(call.x).size = 4
  /\ NowElems(call.x) = <<PreElems(call.x)[1], PreElems(call.x)[4]>>
  /\ PreElems(call.x)[1] # PreElems(call.x)[2]

(* C11: erase(i, i) is a no-op for every i with 0 <= i <= size(),          *)
(* i = size() and the empty Vector included: it completes without error    *)
(* and size(), capacity() and the live elements are unchanged.             *)
C11_EmptyRangeNoOp ==
  (call.op = "erase_range" /\ call.pos = call.cnt /\ call.pos <= PreVec(call.x).size) =>
    /\ call.out = "ok"
    /\ vec[call.x].size = PreVec(call.x).size
    /\ vec[call.x].capacity = PreVec(call.x).capacity
    /\ NowElems(call.x) = PreElems(call.x)

(* C11, amended: erase(i, i) is a no-op for every i with 0 <= i < size():  *)
(* it completes without error and leaves the object and its buffer as they *)
(* were; erase(size(), size()) fails with an out-of-range error.           *)
C11_EmptyRangeInside ==
  (call.op = "erase_range" /\ call.pos = call.cnt) =>
    IF call.pos < PreVec(call.x).size
    THEN /\ call.out = "ok"
         /\ vec = call.vec
         /\ heap = call.heap
    ELSE call.out = "out_of_range"

\* erase(1, 1) on three elements
C11_Witness ==
  /\ call.op = "erase_range" /\ call.out = "ok"
  /\ call.pos = 1 /\ call.cnt = 1
  /\ PreVec(call.x).size = 3
  /\ NowElems(call.x) = PreElems(call.x)

(* C12: insert(position, count, value) and insert(position, first, last)   *)
(* with position <= size() on a Vector holding s yield s[0..position) ++   *)
(* the count new elements in their order ++ s[position..size) and          *)
(* size() + count; with count = 0 they change nothing; with                *)
(* position > size() they fail with an out-of-range error.                 *)
C12_InsertMany ==
  call.op \in {"insert_n", "insert_range"} =>
    LET pre == PreVec(call.x)
        s == PreElems(call.x)
        new == IF call.op = "insert_n" THEN [i \in 1..call.cnt |-> call.val] ELSE call.seq
    IN IF call.pos > pre.size THEN call.out = "out_of_range"
       ELSE /\ call.out = "ok"
            /\ vec[call.x].size = pre.size + Len(new)
            /\ NowElems(call.x) = SubSeq(s, 1, call.pos) \o new \o SubSeq(s, call.pos + 1, pre.size)
            /\ Len(new) = 0 => (vec[call.x] = pre /\ NowElems(call.x) = s)

(* C13: erase(position) fails with an out-of-range error when              *)
(* position >= size(), on an empty Vector too; otherwise it yields         *)
(* s[0..position) ++ s[position+1..size), size() - 1 and the capacity      *)
(* unchanged.                                                              *)
C13_EraseOne ==
  call.op = "erase" =>
    LET pre == PreVec(call.x)
        s == PreElems(call.x)
    IN IF call.pos >= pre.size
       THEN /\ call.out = "out_of_range"
            /\ vec = call.vec
            /\ heap = call.heap
       ELSE /\ call.out = "ok"
            /\ NowElems(call.x) = SubSeq(s, 1, call.pos) \o SubSeq(s, call.pos + 2, pre.size)
            /\ vec[call.x].size = pre.size - 1
            /\ vec[call.x].capacity = pre.capacity

\* erase(1) on four elements, the two after it differing
C13_Witness ==
  /\ call.op = "erase" /\ call.out = "ok"
  /\ call.pos = 1
  /\ PreVec(call.x).size = 4
  /\ PreElems(call.x)[3] # PreElems(call.x)[4]
  /\ NowElems(call.x) = <<PreElems(call.x)[1], PreElems(call.x)[3], PreElems(call.x)[4]>>

(* C14: reserve(n) with n >= capacity() sets capacity() to n and leaves    *)
(* size() and the live elements unchanged; reserve(n) with n < capacity()  *)
(* changes nothing: capacity, size, elements and the buffer stay the same. *)
C14_Reserve ==
  call.op = "reserve" =>
    LET pre == PreVec(call.x)
    IN /\ call.out = "ok"
       /\ vec[call.x].size = pre.size
       /\ NowElems(call.x) = PreElems(call.x)
       /\ IF call.cnt >= pre.capacity
          THEN vec[call.x].capacity = call.cnt
          ELSE vec = call.vec /\ heap = call.heap

\* a reserve that moved two live elements into a larger buffer
C14_Witness ==
  /\ call.op = "reserve" /\ call.out = "ok"
  /\ PreVec(call.x).size = 2
  /\ call.cnt > PreVec(call.x).capacity
  /\ vec[call.x].capacity = call.cnt
  /\ vec[call.x].contents # PreVec(call.x).contents
  /\ NowElems(call.x) = PreElems(call.x)

(* C15: resize(n, v) on a Vector of size s ends with size() = n and the    *)
(* elements at [0, min(s, n)) unchanged; when n > s the elements at [s, n) *)
(* all equal v and capacity() >= n; when n <= s the capacity is unchanged. *)
C15_Resize ==
  call.op = "resize" =>
    LET pre == PreVec(call.x)
        s == PreElems(call.x)
        n == call.cnt
    IN /\ call.out = "ok"
       /\ vec[call.x].size = n
       /\ \A i \in 1..n : NowElems(call.x)[i] = (IF i <= pre.size THEN s[i] ELSE call.val)
       /\ n > pre.size => vec[call.x].capacity >= n
       /\ n <= pre.size => vec[call.x].capacity = pre.capacity

(* C16: after shrink_to_fit() capacity() = size(), and size() and the live *)
(* elements are what they were before the call; when capacity() = size()   *)
(* already, the call changes nothing.                                      *)
C16_ShrinkToFit ==
  call.op = "shrink_to_fit" =>
    LET pre == PreVec(call.x)
    IN /\ call.out = "ok"
       /\ vec[call.x].capacity = vec[call.x].size
       /\ vec[call.x].size = pre.size
       /\ NowElems(call.x) = PreElems(call.x)
       /\ pre.capacity = pre.size => (vec = call.vec /\ heap = call.heap)

\* two live elements moved from a buffer of four slots to one of two
C16_Witness ==
  /\ call.op = "shrink_to_fit" /\ call.out = "ok"
  /\ PreVec(call.x).size = 2 /\ PreVec(call.x).capacity = 4
  /\ vec[call.x].capacity = 2
  /\ Len(heap[vec[call.x].contents].slots) = 2
  /\ NowElems(call.x) = PreElems(call.x)

(* C19: at(index) fails with an out-of-range error exactly when            *)
(* index >= size() and otherwise returns the element at that index;        *)
(* front() and back() fail with an out-of-range error exactly when         *)
(* size() = 0 and otherwise return the elements at index 0 and size() - 1. *)
C19_CheckedAccess ==
  call.op \in {"at", "front", "back"} =>
    LET pre == PreVec(call.x)
        s == PreElems(call.x)
        index == IF call.op = "at" THEN call.pos ELSE IF call.op = "front" THEN 0 ELSE pre.size - 1
        fails == IF call.op = "at" THEN call.pos >= pre.size ELSE pre.size = 0
    IN /\ call.out \in {"ok", "out_of_range"}
       /\ call.out = "out_of_range" <=> fails
       /\ call.out = "ok" => (call.ret = s[index + 1] /\ call.ret \in Values)

\* back() on three elements whose last differs from the others
C19_Witness ==
  /\ call.op = "back" /\ call.out = "ok"
  /\ PreVec(call.x).size = 3
  /\ call.ret = PreElems(call.x)[3]
  /\ call.ret # PreElems(call.x)[1]
  /\ call.ret # PreElems(call.x)[2]

(* C17: pop() and top() on a Stack with size() = 0 fail with an            *)
(* out-of-range error, and on a non-empty Stack they succeed, pop()        *)
(* reducing size() by one; pop_back() on an empty Vector raises no error   *)
(* and leaves size() = 0, and on a non-empty Vector it reduces size() by   *)
(* one and leaves the capacity and the remaining elements unchanged.       *)
C17_EmptyPolicies ==
  LET pre == PreVec(call.x)
      s == PreElems(call.x)
  IN /\ call.op \in {"pop", "top"} =>
          IF pre.size = 0 THEN call.out = "out_of_range"
          ELSE /\ call.out = "ok"
               /\ call.op = "pop" => vec[call.x].size = pre.size - 1
     /\ call.op = "pop_back" =>
          /\ call.out = "ok"
          /\ vec[call.x].capacity = pre.capacity
          /\ IF pre.size = 0 THEN vec[call.x].size = 0
             ELSE /\ vec[call.x].size = pre.size - 1
                  /\ NowElems(call.x) = SubSeq(s, 1, pre.size - 1)

(* C18: after any sequence of push and successful pop calls on a Stack     *)
(* that started empty, size() is the number of pushes minus the number of  *)
(* successful pops, the Stack holds the values pushed and not yet popped   *)
(* in the order of their pushes, and top() returns the latest of them.     *)
C18_StackLifo ==
  /\ vec["a"].size = lifo.pushed - lifo.popped
  /\ NowElems("a") = lifo.vals
  /\ (call.op = "top" /\ Len(lifo.vals) > 0) =>
        (call.out = "ok" /\ call.ret = lifo.vals[Len(lifo.vals)])

\* the number of calls made, while they are the first calls of main in the
\* order of main (-1 once they are not)
Step == IF demo.inOrder THEN Cardinality(demo.made) ELSE -1

(* C20: the run of src/main.cpp on the Vector of src/vector.h: after       *)
(* push_back(1), push_back(2), push_back(3) size() = 3, the contents are   *)
(* [1,2,3] and capacity() >= 3; after resize(5, 100) size() = 5 and the    *)
(* contents are [1,2,3,100,100]; after shrink_to_fit() capacity() = 5;     *)
(* after resize(2) size() = 2, the contents are [1,2] and capacity() = 5;  *)
(* after shrink_to_fit() capacity() = 2; after clear() size() = 0 and      *)
(* capacity() = 2; and no step accesses memory outside the allocated       *)
(* buffer.                                                                 *)
C20_DemoTrace ==
  Step >= 0 =>
    /\ fault = "none"
    /\ Step = 3 => (vec["a"].size = 3 /\ NowElems("a") = <<1, 2, 3>> /\ vec["a"].capacity >= 3)
    /\ Step = 4 => (vec["a"].size = 5 /\ NowElems("a") = <<1, 2, 3, 100, 100>>)
    /\ Step = 5 => vec["a"].capacity = 5
    /\ Step = 6 => (vec["a"].size = 2 /\ NowElems("a") = <<1, 2>> /\ vec["a"].capacity = 5)
    /\ Step = 7 => vec["a"].capacity = 2
    /\ Step = 8 => (vec["a"].size = 0 /\ vec["a"].capacity = 2)

(* C21: emplace and emplace_back change capacity() only when               *)
(* size() = capacity() before the call, then to 2 if it was 0 and to twice *)
(* its value otherwise; with size() < capacity() they leave it unchanged.  *)
C21_EmplaceGrowth ==
  call.op \in {"emplace", "emplace_back"} =>
    LET pre == PreVec(call.x)
        now == vec[call.x]
    IN IF call.out = "ok" /\ pre.size = pre.capacity
       THEN now.capacity = (IF pre.capacity = 0 THEN 2 ELSE 2 * pre.capacity)
       ELSE now.capacity = pre.capacity

(* C22: a = b between two distinct Vectors leaves a with b's size(),       *)
(* capacity() and live elements in the same order, releases the buffer a   *)
(* had exactly once and leaves b unchanged; a = a leaves a's size,         *)
(* capacity, elements and buffer unchanged and releases nothing.           *)
C22_CopyAssignment ==
  call.op = "operator=" =>
    IF call.x = call.other
    THEN /\ call.out = "ok"
         /\ vec = call.vec
         /\ heap = call.heap
    ELSE LET old == PreVec(call.x).contents
         IN /\ call.out = "ok"
            /\ vec[call.x].size = PreVec(call.other).size
            /\ vec[call.x].capacity = PreVec(call.other).capacity
            /\ NowElems(call.x) = PreElems(call.other)
            /\ vec[call.other] = PreVec(call.other)
            /\ NowElems(call.other) = PreElems(call.other)
            /\ old # Null => (call.heap[old].live /\ (vec[call.x].contents = old \/ ~heap[old].live))
            /\ vec[call.x].contents # vec[call.other].contents

\* b = a with a holding an element and b holding another one in its own
\* buffer
C22_Witness ==
  /\ call.op = "operator=" /\ call.x = "b" /\ call.other = "a" /\ call.out = "ok"
  /\ PreVec("a").size = 1
  /\ PreVec("b").size = 1
  /\ PreVec("b").contents # Null
  /\ PreElems("b") # PreElems("a")
  /\ NowElems("b") = PreElems("a")
  /\ vec["b"].contents # vec["a"].contents

(* C23: in every reachable state a Vector with capacity() = 0 holds no     *)
(* allocation: its buffer pointer is null.  In particular after reserve(0) *)
(* on an empty Vector, after shrink_to_fit() with size() = 0 and after     *)
(* copy assignment from an empty Vector.                                   *)
C23_NoCapacityNoBuffer ==
  \A x \in Names : (vec[x].alive /\ vec[x].capacity = 0) => vec[x].contents = Null

\* the buffers are the ones allocated before the call, each with as many
\* slots as it had
SameAllocation == \A p \in BufIds : heap[p].live = call.heap[p].live /\ Len(heap[p].slots) = Len(call.heap[p].slots)

(* C24: clear() sets size() to 0 and leaves capacity() and the buffer      *)
(* unchanged; pop_back(), erase(position), erase(first, last) and resize   *)
(* to a smaller size leave capacity() and the allocation unchanged; and no *)
(* call other than shrink_to_fit(), copy assignment and swap decreases     *)
(* the capacity of a Vector.                                               *)
C24_ReducingKeepsAllocation ==
  LET pre == PreVec(call.x)
      now == vec[call.x]
  IN /\ call.op = "clear" =>
          /\ call.out = "ok"
          /\ now = [pre EXCEPT !.size = 0]
          /\ heap = call.heap
     /\ (\/ call.op \in {"pop_back", "erase", "erase_range"}
         \/ (call.op = "resize" /\ call.cnt <= pre.size)) =>
          /\ now.capacity = pre.capacity
          /\ now.contents = pre.contents
          /\ now.size <= pre.size
          /\ SameAllocation
     /\ call.op \notin {"none", "shrink_to_fit", "operator=", "swap"} =>
          \A y \in Names : (call.vec[y].alive /\ vec[y].alive) => vec[y].capacity >= call.vec[y].capacity

\* clear() on a Vector holding three elements
C24_Witness ==
  /\ call.op = "clear" /\ call.out = "ok"
  /\ PreVec(call.x).size = 3
  /\ vec[call.x].size = 0
  /\ vec[call.x].capacity >= 3
  /\ vec[call.x].contents = PreVec(call.x).contents

\* the live objects whose contents point to the buffer p
Owners(p) == {x \in Names : vec[x].alive /\ vec[x].contents = p}

(* C25: a.swap(b) exchanges the buffer, size and capacity of the two       *)
(* Vectors without copying or reallocating, and swapping again restores    *)
(* both; and after any sequence of calls no two Vectors reference the same *)
(* live buffer and every allocated, unreleased buffer is owned by exactly  *)
(* one Vector.                                                             *)
C25_SwapAndOwnership ==
  /\ call.op = "swap" =>
       /\ call.out = "ok"
       /\ vec[call.x] = PreVec(call.other)
       /\ vec[call.other] = PreVec(call.x)
       /\ heap = call.heap
       /\ Swap(Cur, call.x, call.other).vec = call.vec
  /\ \A p \in BufIds : heap[p].live => Cardinality(Owners(p)) = 1

\* b is a copy of a that was modified; the two have just been swapped
C25_Witness ==
  /\ call.op = "swap" /\ call.x # call.other /\ call.out = "ok"
  /\ PreVec("a").contents # Null /\ PreVec("b").contents # Null
  /\ PreElems("a") # PreElems("b")
  /\ NowElems("a") = PreElems("b")
  /\ NowElems("b") = PreElems("a")
  /\ vec["a"].contents = PreVec("b").contents

(* C26: Vector::empty() returns true exactly when size() = 0, in every     *)
(* reachable state, and Stack::empty() returns true exactly when the Stack *)
(* holds no elements.                                                      *)
C26_Empty ==
  call.op \in {"empty", "Stack::empty"} =>
    /\ call.out = "ok"
    /\ call.flag <=> (PreVec(call.x).size = 0)
    /\ vec = call.vec

(* C27: Vector(n, value) yields size() = n and capacity() = n with every   *)
(* element at an index below n equal to value; for n = 0, and for the      *)
(* default constructor, size() = 0, capacity() = 0 and no buffer is        *)
(* allocated.                                                              *)
C27_SizeConstructor ==
  call.op = "Vector" =>
    LET n == call.cnt
        now == vec[call.x]
    IN /\ call.out = "ok"
       /\ now.alive
       /\ now.size = n
       /\ now.capacity = n
       /\ NowElems(call.x) = [i \in 1..n |-> call.val]
       /\ IF n = 0
          THEN now.contents = Null /\ heap = call.heap
          ELSE /\ OwnsSlots(vec, heap, call.x)
               /\ ~call.heap[now.contents].live

\* Vector(3, value)
C27_Witness ==
  /\ call.op = "Vector" /\ call.out = "ok"
  /\ call.cnt = 3
  /\ NowElems(call.x) = <<call.val, call.val, call.val>>
  /\ call.val \in Values

(* C28: during N consecutive push_back calls on an initially empty Vector  *)
(* the reallocations copy at most 2N elements in total, for every N.       *)
C28_AmortizedGrowth ==
  \A x \in Names : (vec[x].alive /\ run[x].pure) => run[x].copies <= 2 * Len(run[x].vals)

\* nine calls, the third, fifth and ninth of which moved 2, 4 and 8
\* elements
C28_Witness ==
  /\ call.op = "push_back" /\ call.out = "ok"
  /\ run["a"].pure
  /\ Len(run["a"].vals) = 9
  /\ run["a"].copies = 14
  /\ vec["a"].capacity = 16

(* C29: a call of at, front, back, insert (any overload), emplace,         *)
(* erase(position) or erase(first, last) on a Vector, or of pop or top on  *)
(* a Stack, that fails with an out-of-range error leaves size(),           *)
(* capacity(), the buffer and every element as they were.                  *)
C29_FailureChangesNothing ==
  (/\ call.op \in {"at", "front", "back", "insert", "insert_n", "insert_range", "emplace", "erase",
                   "erase_range", "pop", "top"}
   /\ call.out = "out_of_range") =>
    /\ vec = call.vec
    /\ heap = call.heap
    /\ fault = "none"

\* insert(position, value) with position > size() on a full Vector
C29_Witness ==
  /\ call.op = "insert" /\ call.out = "out_of_range"
  /\ call.pos > PreVec(call.x).size
  /\ PreVec(call.x).size = PreVec(call.x).capacity
  /\ PreVec(call.x).size > 0
  /\ vec = call.vec

====
